---- MODULE Spec2Model ----
(***************************************************************************)
(* A model of discord/connections.py (PartialConnection) and               *)
(* discord/profile.py (ApplicationProfile, MutualGuild, ProfileBadge,      *)
(* MemberUserProfile, Profile).                                            *)
(*                                                                         *)
(* Encoding of Python values.                                              *)
(*   - A str is a TLA+ string; f-strings are built with \o.                *)
(*   - An Optional[T] is a sequence of length 0 or 1: None is <<>> and a   *)
(*     value v is <<v>>.                                                   *)
(*   - A dict with a known set of possible keys is a record with one slot  *)
(*     per key; a slot is a sequence of length 0 or 1: <<>> means the key  *)
(*     is absent, <<x>> means the key maps to x.  d[k] raises KeyError on  *)
(*     an absent key, d.get(k) returns None.                               *)
(*   - An object with __slots__ is a record of slots of the same shape:    *)
(*     <<>> is a slot that was never assigned (reading it raises           *)
(*     AttributeError).                                                    *)
(***************************************************************************)
EXTENDS Integers, Sequences, FiniteSets, TLC

VARIABLES
    heap,        \* the PartialConnection objects alive: address -> Optional[object]
    connError,   \* the exception raised by the last PartialConnection call, or "none"
    lastUpdate,  \* the last _update call on a constructed record: Optional[call]
    sent,        \* the profile payload as the HTTP layer returned it
    data,        \* the profile payload dict the caller holds
    pc,          \* where the caller of Profile(...) is
    profile,     \* the Profile object returned to the caller: Optional[object]
    stateCalls,  \* the calls made on the session context (ConnectionState), in order
    raisedAt,    \* the line of Profile.__init__ that raised, 0 when none did
    readResult,  \* what the caller's last attribute read gave
    data2,       \* a second payload dict, equal to the one received
    profile2     \* the Profile object built from data2: Optional[object]

vars == <<heap, connError, lastUpdate, sent, data, pc, profile, stateCalls, raisedAt, readResult,
          data2, profile2>>

connVars == <<heap, connError, lastUpdate>>
twiceVars == <<data2, profile2>>
profileVars == <<sent, data, pc, profile, stateCalls, raisedAt, readResult, twiceVars>>

----------------------------------------------------------------------------
(* Python values *)

None == <<>>
Some(v) == <<v>>
Absent == <<>>
Key(v) == <<v>>

\* d.get(k) for a key whose values are Optional-encoded
Get(d, k) == IF d[k] = Absent THEN None ELSE d[k][1]

\* d.get(k, default) for a key whose values are plain
GetOr(d, k, default) == IF d[k] = Absent THEN default ELSE d[k][1]

\* 'sub' in s
Contains(s, sub) ==
    \E i \in 1..(Len(s) - Len(sub) + 1) : SubSeq(s, i, i + Len(sub) - 1) = sub

\* s.startswith(prefix)
StartsWith(s, prefix) ==
    /\ Len(s) >= Len(prefix)
    /\ SubSeq(s, 1, Len(prefix)) = prefix

----------------------------------------------------------------------------
(* discord/enums.py: ConnectionType and try_enum *)

\* the members of ConnectionType that connections.py names
UrlTypes ==
    {"twitch", "youtube", "steam", "reddit", "twitter", "spotify", "xbox",
     "github", "tiktok", "ebay", "instagram", "playstation", "domain", "roblox"}

ConnectionType(v) == [name |-> v, value |-> v]

\* try_enum(ConnectionType, val): the member whose value is val, else a
\* fallback value that carries the raw input
try_enum_ConnectionType(val) ==
    IF val \in UrlTypes
    THEN ConnectionType(val)
    ELSE [name |-> "unknown_" \o val, value |-> val]

----------------------------------------------------------------------------
(* PartialConnection *)

ConnRequired == {"id", "name", "type", "verified"}

\* the first subscript of _update that raises KeyError, if any
Raises_update(d) == \E k \in ConnRequired : d[k] = Absent

_updateVisibleAsVerified(self, d) ==
    [id       |-> d.id[1],
     name     |-> d.name[1],
     type     |-> try_enum_ConnectionType(d.type[1]),
     verified |-> d.verified[1],
     visible  |-> d.verified[1],
     metadata |-> GetOr(d, "metadata", {})]

\* PartialConnection._update on a payload that has every required key
_update(self, d) ==
    [id       |-> d.id[1],
     name     |-> d.name[1],
     type     |-> try_enum_ConnectionType(d.type[1]),
     verified |-> d.verified[1],
     visible  |-> TRUE,
     metadata |-> GetOr(d, "metadata", {})]

_updateInPlaceAsCopy(self, d) == self

\* self after self._update(d) on a constructed record: the assignments of
\* lines 106-112 in order, up to the first subscript that raises KeyError
_updateInPlace(self, d) ==
    IF d.id = Absent THEN self
    ELSE IF d.name = Absent THEN [self EXCEPT !.id = d.id[1]]
    ELSE IF d.type = Absent THEN [self EXCEPT !.id = d.id[1], !.name = d.name[1]]
    ELSE IF d.verified = Absent
    THEN [self EXCEPT !.id = d.id[1], !.name = d.name[1],
                      !.type = try_enum_ConnectionType(d.type[1])]
    ELSE _update(self, d)

\* the object before __init__ ran: no slot is assigned
BlankConnection ==
    [id |-> "", name |-> "", type |-> ConnectionType("twitch"),
     verified |-> FALSE, visible |-> FALSE, metadata |-> {}]

\* PartialConnection(d)
PartialConnection(d) == _update(BlankConnection, d)

urlSwapped(self) ==
    IF self.type = ConnectionType("twitch") THEN Some("https://www.twitch.tv/" \o self.name)
    ELSE IF self.type = ConnectionType("youtube") THEN Some("https://www.youtube.com/channel/" \o self.name)
    ELSE IF self.type = ConnectionType("xbox") THEN Some("https://account.xbox.com/en-US/Profile?Gamertag=" \o self.name)
    ELSE IF self.type.value \in UrlTypes THEN Some("https://" \o self.name)
    ELSE None

\* PartialConnection.url
url(self) ==
    IF self.type = ConnectionType("twitch") THEN
        Some("https://www.twitch.tv/" \o self.name)
    ELSE IF self.type = ConnectionType("youtube") THEN
        Some("https://www.youtube.com/channel/" \o self.id)
    ELSE IF self.type = ConnectionType("steam") THEN
        Some("https://steamcommunity.com/profiles/" \o self.id)
    ELSE IF self.type = ConnectionType("reddit") THEN
        Some("https://www.reddit.com/u/" \o self.name)
    ELSE IF self.type = ConnectionType("twitter") THEN
        Some("https://twitter.com/" \o self.name)
    ELSE IF self.type = ConnectionType("spotify") THEN
        Some("https://open.spotify.com/user/" \o self.id)
    ELSE IF self.type = ConnectionType("xbox") THEN
        LET xbox_page == "https://account.xbox.com/en-US/Profile"
        IN  IF Contains(self.name, " ")
            THEN Some(self.name)
            ELSE Some(xbox_page \o "?Gamertag=" \o self.name)
    ELSE IF self.type = ConnectionType("github") THEN
        Some("https://github.com/" \o self.name)
    ELSE IF self.type = ConnectionType("tiktok") THEN
        Some("https://tiktok.com/@" \o self.name)
    ELSE IF self.type = ConnectionType("ebay") THEN
        Some("https://www.ebay.com/usr/" \o self.name)
    ELSE IF self.type = ConnectionType("instagram") THEN
        Some("https://www.instagram.com/" \o self.name)
    ELSE IF self.type = ConnectionType("playstation") THEN
        Some("https://psnprofiles.com/" \o self.name)
    ELSE IF self.type = ConnectionType("domain") THEN
        Some("https://" \o self.name)
    ELSE IF self.type = ConnectionType("roblox") THEN
        Some("https://www.roblox.com/users/" \o self.id \o "/profile")
    ELSE None

\* the zero-width space U+200B
ZWSP == "\\u200b"

hyperlinkAnyUrl(self) ==
    IF url(self) # None
    THEN "[" \o (IF self.name # "" THEN self.name ELSE ZWSP) \o "](" \o url(self)[1] \o ")"
    ELSE self.name

\* PartialConnection.hyperlink
hyperlink(self) ==
    IF url(self) # None /\ url(self)[1] # "" /\ StartsWith(url(self)[1], "https")
    THEN "[" \o (IF self.name # "" THEN self.name ELSE ZWSP) \o "](" \o url(self)[1] \o ")"
    ELSE self.name

\* hash(t) of a tuple of strings: equal tuples hash alike; collisions between
\* unequal tuples are left out
PyHash(t) == t

\* PartialConnection.__hash__
__hash__(self) == PyHash(<<self.type.value, self.id>>)

__eq__WithType(self, other) ==
    self.id = other.id /\ self.name = other.name /\ self.type = other.type

\* PartialConnection.__eq__ between two PartialConnection objects
__eq__(self, other) == self.id = other.id /\ self.name = other.name

\* PartialConnection.__ne__ between two PartialConnection objects
__ne__(self, other) == self.id # other.id \/ self.name # other.name

----------------------------------------------------------------------------
(* Helpers of discord/utils.py and discord/enums.py that profile.py calls *)

DigitChars == <<"0", "1", "2", "3", "4", "5", "6", "7", "8", "9">>

DigitValue(c) == CHOOSE n \in 0..9 : DigitChars[n + 1] = c

RECURSIVE IntOf(_)
\* int(s) for a string of decimal digits
IntOf(s) ==
    IF Len(s) = 1 THEN DigitValue(s)
    ELSE IntOf(SubSeq(s, 1, Len(s) - 1)) * 10 + DigitValue(SubSeq(s, Len(s), Len(s)))

RECURSIVE StrOf(_)
\* str(n) for n >= 0
StrOf(n) ==
    IF n < 10 THEN DigitChars[n + 1]
    ELSE StrOf(n \div 10) \o DigitChars[(n % 10) + 1]

RECURSIVE Join(_, _)
\* sep.join(parts)
Join(sep, parts) ==
    IF parts = <<>> THEN ""
    ELSE IF Len(parts) = 1 THEN parts[1]
    ELSE parts[1] \o sep \o Join(sep, Tail(parts))

\* utils._get_as_snowflake(data, key): None for an absent or null value, else
\* int(value)
_get_as_snowflake(d, k) ==
    IF Get(d, k) = None THEN None ELSE Some(IntOf(Get(d, k)[1]))

\* utils.parse_time(timestamp): None for None or '', else the datetime
parse_time(ts) ==
    IF ts = None \/ ts = Some("") THEN None
    ELSE Some([isoformat |-> ts[1]])

\* utils.oauth_url(client_id, permissions=..., scopes=...)
oauth_url(client_id, permissions, scopes) ==
    "https://discord.com/oauth2/authorize?client_id=" \o StrOf(client_id)
        \o "&scope=" \o Join("+", scopes)
        \o "&permissions=" \o StrOf(permissions)

\* the members of enums.PremiumType, by value
PremiumTypeNames == <<"none", "nitro_classic", "nitro", "nitro_basic">>

\* try_enum(PremiumType, val)
try_enum_PremiumType(val) ==
    IF val \in 0..(Len(PremiumTypeNames) - 1)
    THEN [name |-> PremiumTypeNames[val + 1], value |-> val]
    ELSE [name |-> "unknown_" \o StrOf(val), value |-> val]

\* bool(x) of an Optional[dict]: None and {} are false
TruthyDict(o) == o # None /\ \E k \in DOMAIN o[1] : o[1][k] # Absent

\* bool(x) of an Optional[int]: None and 0 are false
TruthyInt(o) == o # None /\ o[1] # 0

\* bool(x) of an Optional[str]: None and '' are false
TruthyStr(o) == o # None /\ o[1] # ""

\* (x or []) of an Optional[list]
OrEmptyList(o) == IF o = None THEN <<>> ELSE o[1]

----------------------------------------------------------------------------
(* discord/user.py and discord/member.py: User and Member *)

\* User(state=state, data=d): the identity fields of the user
User(d) == [id |-> IntOf(d.id[1]), name |-> d.username[1]]

\* Member(data=d, state=state, guild=guild): the member's user is built from
\* d['user']
Member(d, guild) ==
    [_user |-> User(d.user[1][1]),
     guild |-> guild,
     nick  |-> Get(d, "nick")]

\* Member(...) subscripts d['user']
RaisesMember(d) == d.user = Absent

\* state._get_or_create_unavailable_guild(guild_id)
UnavailableGuild(guild_id) == [id |-> guild_id, unavailable |-> TRUE]

GuildCall(guild_id) == [method |-> "_get_or_create_unavailable_guild", arg |-> guild_id]

----------------------------------------------------------------------------
(* ApplicationInstallParams and ApplicationProfile *)

DefaultScopes == <<"bot", "applications.commands">>

\* ApplicationInstallParams.__init__
ApplicationInstallParams(application_id, scopes, permissions) ==
    [application_id |-> application_id,
     scopes         |-> IF scopes # <<>> THEN scopes ELSE DefaultScopes,
     permissions    |-> permissions]

\* ApplicationInstallParams.from_application
from_application(application_id, d) ==
    ApplicationInstallParams(
        application_id,
        GetOr(d, "scopes", <<>>),
        IntOf(GetOr(d, "permissions", "0")))

\* ApplicationInstallParams.url
InstallParamsUrl(self) == oauth_url(self.application_id, self.permissions, self.scopes)

\* ApplicationProfile.__init__ subscripts data['id']
RaisesApplicationProfile(d) == d.id = Absent

\* ApplicationProfile.__init__ on a fragment that has an id
ApplicationProfile(d) ==
    LET id == IntOf(d.id[1])
        params == Get(d, "install_params")
    IN  [id       |-> id,
         verified |-> GetOr(d, "verified", FALSE),
         popular_application_command_ids |->
             [i \in 1..Len(OrEmptyList(Get(d, "popular_application_command_ids"))) |->
                 IntOf(OrEmptyList(Get(d, "popular_application_command_ids"))[i])],
         primary_sku_id |-> _get_as_snowflake(d, "primary_sku_id"),
         _flags   |-> GetOr(d, "flags", 0),
         custom_install_url |-> Get(d, "custom_install_url"),
         install_params |->
             IF TruthyDict(params) THEN Some(from_application(id, params[1])) ELSE None]

\* ApplicationProfile.install_url:
\*   (custom_install_url or install_params.url) if install_params else None
install_url(self) ==
    IF self.install_params # None
    THEN IF TruthyStr(self.custom_install_url)
         THEN self.custom_install_url
         ELSE Some(InstallParamsUrl(self.install_params[1]))
    ELSE None

----------------------------------------------------------------------------
(* MutualGuild, ProfileBadge, MemberUserProfile *)

RaisesMutualGuild(d) == d.id = Absent

\* MutualGuild.__init__
MutualGuild(d) == [id |-> IntOf(d.id[1]), nick |-> Get(d, "nick")]

RaisesProfileBadgeIdOnly(d) == d.id = Absent

\* ProfileBadge.__init__ subscripts data['id'] and data['icon']
RaisesProfileBadge(d) == d.id = Absent \/ d.icon = Absent

\* ProfileBadge.__init__
ProfileBadge(d) ==
    [id          |-> d.id[1],
     description |-> GetOr(d, "description", ""),
     link        |-> Get(d, "link"),
     _icon       |-> d.icon[1]]

\* MemberUserProfile.__init__
MemberUserProfile(d, user_id) ==
    [user_id       |-> user_id,
     guild_id      |-> _get_as_snowflake(d, "guild_id"),
     bio           |-> Get(d, "bio"),
     _accent_color |-> Get(d, "accent_color"),
     theme_colors  |-> OrEmptyList(Get(d, "theme_colors")),
     pronouns      |-> Get(d, "pronouns"),
     _banner       |-> Get(d, "banner"),
     emoji         |-> Get(d, "emoji")]

\* asset.Asset._from_guild_banner(state, guild_id, member_id, banner)
_from_guild_banner(guild_id, member_id, banner) ==
    [url |-> "https://cdn.discordapp.com/guilds/" \o StrOf(guild_id) \o "/users/"
                \o StrOf(member_id) \o "/banners/" \o banner,
     key |-> banner]

\* asset.Asset._from_user_banner(state, user_id, banner_hash)
_from_user_banner(user_id, banner_hash) ==
    [url |-> "https://cdn.discordapp.com/banners/" \o StrOf(user_id) \o "/" \o banner_hash,
     key |-> banner_hash]

bannerAlwaysUser(self) ==
    IF self._banner = None THEN None
    ELSE Some(_from_user_banner(self.user_id, self._banner[1]))

\* MemberUserProfile.banner
banner(self) ==
    IF self._banner = None THEN None
    ELSE IF TruthyInt(self.guild_id)
    THEN Some(_from_guild_banner(self.guild_id[1], self.user_id, self._banner[1]))
    ELSE Some(_from_user_banner(self.user_id, self._banner[1]))

----------------------------------------------------------------------------
(* Profile.__init__ *)

\* line 343: user_profile := data.get('user_profile'), built when truthy
BuildUserProfile(d, user_id) ==
    IF TruthyDict(Get(d, "user_profile"))
    THEN Some(MemberUserProfile(Get(d, "user_profile")[1], user_id))
    ELSE None

\* line 346: member := data.get('guild_member') is truthy
HasMember(d) == TruthyDict(Get(d, "guild_member"))

MemberDataAsSent(d) == Get(d, "guild_member")[1]

\* line 347: member['user'] = data['user']; the dict Member(...) is given
MemberData(d) == [Get(d, "guild_member")[1] EXCEPT !.user = Key(Some(d.user[1]))]

\* lines 346-347 write into the dict stored under data['guild_member']
PayloadAfterInit(d) ==
    IF d.user # Absent /\ HasMember(d)
    THEN [d EXCEPT !.guild_member = Key(Some(MemberData(d)))]
    ELSE d

InitCallsAlways(d, guild_id) ==
    IF d.user # Absent THEN <<GuildCall(guild_id)>> ELSE <<>>

\* line 348: the calls __init__ makes on state
InitCalls(d, guild_id) ==
    IF d.user # Absent /\ HasMember(d) THEN <<GuildCall(guild_id)>> ELSE <<>>

\* line 349
BuildMember(d, guild_id) ==
    IF HasMember(d)
    THEN Some(Member(MemberData(d), UnavailableGuild(guild_id)))
    ELSE None

\* line 351
BuildMemberProfile(d, user_id) ==
    IF TruthyDict(Get(d, "guild_member_profile"))
    THEN Some(MemberUserProfile(Get(d, "guild_member_profile")[1], user_id))
    ELSE None

\* lines 353-355
BuildPremiumType(d) ==
    IF TruthyInt(Get(d, "premium_type"))
    THEN Some(try_enum_PremiumType(d.premium_type[1][1]))
    ELSE None

BuildConnectionsReversed(d) ==
    LET src == OrEmptyList(Get(d, "connected_accounts"))
    IN  Some([i \in 1..Len(src) |-> PartialConnection(src[Len(src) + 1 - i])])

\* lines 358-360
BuildConnections(d) ==
    LET src == OrEmptyList(Get(d, "connected_accounts"))
    IN  Some([i \in 1..Len(src) |-> PartialConnection(src[i])])

\* line 361
BuildBadges(d) ==
    LET src == OrEmptyList(Get(d, "badges"))
    IN  Some([i \in 1..Len(src) |-> ProfileBadge(src[i])])

BuildMutualGuildsNoDefault(d) ==
    LET src == Get(d, "mutual_guilds")
    IN  IF src = None
        THEN None
        ELSE Some([i \in 1..Len(src[1]) |-> MutualGuild(src[1][i])])

\* lines 362-363
BuildMutualGuilds(d) ==
    LET src == OrEmptyList(Get(d, "mutual_guilds"))
    IN  Some([i \in 1..Len(src) |-> MutualGuild(src[i])])

\* lines 365-366
BuildApplication(d) ==
    IF TruthyDict(Get(d, "application"))
    THEN Some(ApplicationProfile(Get(d, "application")[1]))
    ELSE None

\* the statement of __init__ that raises, by line number; 0 when none does
RaisesAt(d) ==
    LET conns == OrEmptyList(Get(d, "connected_accounts"))
        badges == OrEmptyList(Get(d, "badges"))
        guilds == OrEmptyList(Get(d, "mutual_guilds"))
    IN  IF d.user = Absent THEN 341
        ELSE IF HasMember(d) /\ RaisesMember(MemberData(d)) THEN 349
        ELSE IF d.premium_since = Absent THEN 356
        ELSE IF d.premium_guild_since = Absent THEN 357
        ELSE IF \E i \in 1..Len(conns) : Raises_update(conns[i]) THEN 359
        ELSE IF \E i \in 1..Len(badges) : RaisesProfileBadge(badges[i]) THEN 361
        ELSE IF \E i \in 1..Len(guilds) : RaisesMutualGuild(guilds[i]) THEN 363
        ELSE IF TruthyDict(Get(d, "application"))
                /\ RaisesApplicationProfile(Get(d, "application")[1]) THEN 366
        ELSE 0

\* a slot of __slots__ that no statement assigned
Unassigned == <<>>

\* the statement at `line` ran to its end
Ran(d, line) == RaisesAt(d) = 0 \/ RaisesAt(d) > line

\* self when __init__ is left, by its last statement or by an exception
Profile(d, user_id, guild_id) ==
    [_state              |-> Key("state"),
     user                |-> IF Ran(d, 341) THEN Key(User(d.user[1])) ELSE Unassigned,
     user_profile        |-> IF Ran(d, 341) THEN Key(BuildUserProfile(d, user_id))
                             ELSE Unassigned,
     member              |-> IF Ran(d, 349) THEN Key(BuildMember(d, guild_id))
                             ELSE IF Ran(d, 341) THEN Key(None) ELSE Unassigned,
     member_profile      |-> IF Ran(d, 349) THEN Key(BuildMemberProfile(d, user_id))
                             ELSE Unassigned,
     premium_type        |-> IF Ran(d, 349) THEN Key(BuildPremiumType(d)) ELSE Unassigned,
     premium_since       |-> IF Ran(d, 356) THEN Key(parse_time(d.premium_since[1]))
                             ELSE Unassigned,
     premium_guild_since |-> IF Ran(d, 357) THEN Key(parse_time(d.premium_guild_since[1]))
                             ELSE Unassigned,
     connections         |-> IF Ran(d, 359) THEN Key(BuildConnections(d)) ELSE Unassigned,
     badges              |-> IF Ran(d, 361) THEN Key(BuildBadges(d)) ELSE Unassigned,
     guild_badges        |-> Unassigned,
     mutual_guilds       |-> IF Ran(d, 363) THEN Key(BuildMutualGuilds(d)) ELSE Unassigned,
     application         |-> IF Ran(d, 366) THEN Key(BuildApplication(d)) ELSE Unassigned,
     legacy_username     |-> IF Ran(d, 366) THEN Key(Get(d, "legacy_username"))
                             ELSE Unassigned]

ReturnedEvenIfRaised(d, user_id, guild_id) == Some(Profile(d, user_id, guild_id))

\* what the call Profile(...) gives its caller: the object, or nothing when
\* an exception leaves __init__
Returned(d, user_id, guild_id) ==
    IF RaisesAt(d) # 0 THEN None ELSE Some(Profile(d, user_id, guild_id))

----------------------------------------------------------------------------
(* The connection fragments the Gateway/HTTP layer hands over *)

Ids == {"1", "2"}

Names == {"", "foo", "John Doe", "https x"}

\* every member connections.py names, and one tag the enum does not know
TypeTags == UrlTypes \cup {"mastodon"}

\* what else a fragment says about the account: verified and metadata
ConnDetails ==
    {[verified |-> Key(TRUE), metadata |-> Absent],
     [verified |-> Key(FALSE), metadata |-> Key({<<"verified", "1">>})]}

\* fragments that have every required key
ConnFragments ==
    {[id |-> Key(i), name |-> Key(n), type |-> Key(t),
      verified |-> x.verified, metadata |-> x.metadata] :
        i \in Ids, n \in Names, t \in TypeTags, x \in ConnDetails}

ConnSample == [id |-> Key("1"), name |-> Key("foo"), type |-> Key("github"),
               verified |-> Key(TRUE), metadata |-> Absent]

\* fragments that lack one required key
BrokenConnFragments == {[ConnSample EXCEPT ![k] = Absent] : k \in ConnRequired}

Addrs == {"a", "b"}

----------------------------------------------------------------------------
(* Operations on connection records *)

\* x = PartialConnection(d): a new object at a free address, or KeyError
NewConnection(x, d) ==
    /\ heap[x] = None
    /\ IF Raises_update(d)
       THEN /\ connError' = "KeyError"
            /\ heap' = heap
       ELSE /\ connError' = "none"
            /\ heap' = [heap EXCEPT ![x] = Some(PartialConnection(d))]
    /\ UNCHANGED <<lastUpdate, profileVars>>

IdleProfile ==
    /\ sent = None
    /\ data = None
    /\ pc = "idle"
    /\ profile = None
    /\ stateCalls = <<>>
    /\ raisedAt = 0
    /\ readResult = "none"
    /\ data2 = None
    /\ profile2 = None

InitConn ==
    /\ heap = [x \in Addrs |-> None]
    /\ connError = "none"
    /\ lastUpdate = None
    /\ IdleProfile

NextConn ==
    \E x \in Addrs, d \in ConnFragments \cup BrokenConnFragments : NewConnection(x, d)

SpecConn == InitConn /\ [][NextConn]_vars

Live == {heap[x][1] : x \in {y \in Addrs : heap[y] # None}}

\* the addresses that hold a record
LiveAddrs == {x \in Addrs : heap[x] # None}

\* the payloads a refresh brings: complete ones, and ones that lack a key
RefreshFragments ==
    {d \in ConnFragments : d.name[1] = "foo" /\ d.type[1] \in {"github", "mastodon"}}
    \cup BrokenConnFragments

\* heap[x]._update(d): the record at x is refreshed where it is; whoever
\* holds the address x sees the result
Update(x, d) ==
    /\ heap[x] # None
    /\ heap' = [heap EXCEPT ![x] = Some(_updateInPlace(heap[x][1], d))]
    /\ connError' = IF Raises_update(d) THEN "KeyError" ELSE "none"
    /\ lastUpdate' = Some([self |-> x, data |-> d])
    /\ UNCHANGED profileVars

NextRefresh ==
    \/ \E x \in Addrs, d \in RefreshFragments : NewConnection(x, d)
    \/ \E x \in Addrs, d \in RefreshFragments : Update(x, d)

SpecRefresh == InitConn /\ [][NextRefresh]_vars

----------------------------------------------------------------------------
(* The profile payloads the HTTP layer hands over *)

\* the longest array a payload carries
MaxList == 2

\* the most calls the session context receives
MaxCalls == 2

Lists(S) == UNION {[1..n -> S] : n \in 0..MaxList}

\* every absent key, then null, then every array of at most MaxList elements
ArraySlots(S) == {Absent, Key(None)} \cup {Key(Some(l)) : l \in Lists(S)}

UserA == [id |-> Key("1"), username |-> Key("alice")]

UserStale == [id |-> Key("2"), username |-> Key("alice_old")]

GlobalMetadata ==
    [guild_id |-> Absent, bio |-> Key(Some("hello")), banner |-> Key(Some("b1")),
     emoji |-> Key(None), accent_color |-> Key(Some(255)),
     theme_colors |-> Key(Some(<<1, 2>>)), pronouns |-> Key(Some("they"))]

GuildMetadata ==
    [guild_id |-> Key(Some("10")), bio |-> Key(Some("")), banner |-> Key(Some("b2")),
     emoji |-> Key(None), accent_color |-> Absent,
     theme_colors |-> Absent, pronouns |-> Key(Some(""))]

\* overlay fragments with and without a guild id and a banner hash; guild 20
\* is not the guild the profile was fetched for
MetadataFragments ==
    {[GuildMetadata EXCEPT !.guild_id = g, !.banner = b] :
        g \in {Absent, Key(None), Key(Some("10")), Key(Some("20"))},
        b \in {Absent, Key(None), Key(Some("b3"))}}

\* a member fragment that leaves the user out, and one that embeds a user
MemberNoUser ==
    [user |-> Absent, nick |-> Key(Some("al")), joined_at |-> Key("2020-01-01T00:00:00+00:00")]

MemberStaleUser == [MemberNoUser EXCEPT !.user = Key(Some(UserStale))]

ConnXbox == [id |-> Key("2"), name |-> Key("John Doe"), type |-> Key("xbox"),
             verified |-> Key(FALSE), metadata |-> Key({<<"verified", "1">>})]

BadgeA == [id |-> Key("staff"), description |-> Key("Discord Staff"),
           icon |-> Key("i1"), link |-> Absent]

BadgeB == [id |-> Key("hypesquad"), description |-> Absent,
           icon |-> Key("i2"), link |-> Key(Some("https://discord.com/hypesquad"))]

BadgeRequired == {"id", "icon"}

BrokenBadges == {[BadgeA EXCEPT ![k] = Absent] : k \in BadgeRequired}

GuildA == [id |-> Key("10"), nick |-> Key(Some("al"))]

GuildB == [id |-> Key("20"), nick |-> Key(None)]

GuildNoId == [GuildA EXCEPT !.id = Absent]

InstallParamsA == [scopes |-> Key(<<"bot">>), permissions |-> Key("8")]

\* an application fragment with every key the code reads
ApplicationFull ==
    [id |-> Key("5"), verified |-> Key(TRUE), flags |-> Key(0),
     popular_application_command_ids |-> Key(Some(<<"7">>)),
     primary_sku_id |-> Absent,
     custom_install_url |-> Key(Some("https://example.com/install")),
     install_params |-> Key(Some(InstallParamsA))]

\* the empty JSON object
EmptyApplication == [k \in DOMAIN ApplicationFull |-> Absent]

\* with or without id, custom_install_url and install_params, and {}
ApplicationFragments ==
    {[ApplicationFull EXCEPT !.id = i, !.custom_install_url = c, !.install_params = p] :
        i \in {Absent, ApplicationFull.id},
        c \in {Absent, ApplicationFull.custom_install_url},
        p \in {Absent, ApplicationFull.install_params}}
    \cup {EmptyApplication}

Timestamp == "2021-01-01T00:00:00+00:00"

\* a payload that has every key
FullPayload ==
    [user                 |-> Key(UserA),
     user_profile         |-> Key(Some(GlobalMetadata)),
     guild_member         |-> Key(Some(MemberNoUser)),
     guild_member_profile |-> Key(Some(GuildMetadata)),
     premium_since        |-> Key(Some(Timestamp)),
     premium_type         |-> Key(Some(2)),
     premium_guild_since  |-> Key(Some(Timestamp)),
     connected_accounts   |-> Key(Some(<<ConnSample, ConnXbox>>)),
     badges               |-> Key(Some(<<BadgeA, BadgeB>>)),
     guild_badges         |-> Key(Some(<<BadgeB>>)),
     mutual_guilds        |-> Key(Some(<<GuildA, GuildB>>)),
     application          |-> Key(Some(ApplicationFull)),
     legacy_username      |-> Key(Some("alice#0001"))]

PayloadKeys == DOMAIN FullPayload

OptionalKeys == PayloadKeys \ {"user"}

\* the full payload with any subset of its keys left out
PresencePayloads ==
    {[k \in PayloadKeys |-> IF k \in S THEN FullPayload[k] ELSE Absent] :
        S \in SUBSET PayloadKeys}

\* the full payload with one key taking each of its values
DeepPayloads ==
    {[FullPayload EXCEPT !.guild_member = v] :
        v \in {Key(Some(MemberStaleUser))}}
    \cup {[FullPayload EXCEPT !.user_profile = v, !.guild_member_profile = v] :
        v \in {Key(None)}}
    \cup {[FullPayload EXCEPT !.user_profile = Key(Some(m))] : m \in MetadataFragments}
    \cup {[FullPayload EXCEPT !.guild_member_profile = Key(Some(m))] :
        m \in MetadataFragments}
    \cup {[FullPayload EXCEPT !.premium_type = v] :
        v \in {Key(None)} \cup {Key(Some(n)) : n \in 0..4}}
    \cup {[FullPayload EXCEPT !.premium_since = v, !.premium_guild_since = v,
                              !.legacy_username = v] :
        v \in {Key(None)}}
    \cup {[FullPayload EXCEPT !.connected_accounts = v] :
        v \in ArraySlots({ConnSample, ConnXbox} \cup BrokenConnFragments)}
    \cup {[FullPayload EXCEPT !.badges = v] :
        v \in ArraySlots({BadgeA, BadgeB} \cup BrokenBadges)}
    \cup {[FullPayload EXCEPT !.guild_badges = v] :
        v \in ArraySlots({BadgeA, BadgeB})}
    \cup {[FullPayload EXCEPT !.mutual_guilds = v] :
        v \in ArraySlots({GuildA, GuildB, GuildNoId})}
    \cup {[FullPayload EXCEPT !.application = Key(Some(a))] :
        a \in ApplicationFragments}

Payloads == PresencePayloads \cup DeepPayloads

UserIds == {1}

GuildIds == {10}

----------------------------------------------------------------------------
(* Operations on a profile *)

\* profile = Profile(state=state, data=data, user_id=user_id, guild_id=guild_id)
Construct(user_id, guild_id) ==
    /\ pc = "fetched"
    /\ stateCalls' = stateCalls \o InitCalls(data[1], guild_id)
    /\ data' = Some(PayloadAfterInit(data[1]))
    /\ raisedAt' = RaisesAt(data[1])
    /\ pc' = IF RaisesAt(data[1]) # 0 THEN "raised" ELSE "constructed"
    /\ profile' = Returned(data[1], user_id, guild_id)
    /\ UNCHANGED <<sent, readResult, connVars, twiceVars>>

\* profile.guild_badges
ReadGuildBadges ==
    /\ pc = "constructed"
    /\ readResult = "none"
    /\ readResult' =
          IF profile[1].guild_badges = Unassigned THEN "AttributeError" ELSE "value"
    /\ UNCHANGED <<sent, data, pc, profile, stateCalls, raisedAt, connVars, twiceVars>>

\* profile.mutual_guilds[i].guild
ResolveGuild(i) ==
    /\ pc = "constructed"
    /\ i \in 1..Len(profile[1].mutual_guilds[1][1])
    /\ Len(stateCalls) < MaxCalls
    /\ stateCalls' = Append(stateCalls, GuildCall(profile[1].mutual_guilds[1][1][i].id))
    /\ UNCHANGED <<sent, data, pc, profile, raisedAt, readResult, connVars, twiceVars>>

Init ==
    /\ sent \in {Some(p) : p \in Payloads}
    /\ data = sent
    /\ pc = "fetched"
    /\ profile = None
    /\ stateCalls = <<>>
    /\ raisedAt = 0
    /\ readResult = "none"
    /\ data2 = sent
    /\ profile2 = None
    /\ heap = [x \in Addrs |-> None]
    /\ connError = "none"
    /\ lastUpdate = None

Next ==
    \/ \E user_id \in UserIds, guild_id \in GuildIds : Construct(user_id, guild_id)
    \/ ReadGuildBadges
    \/ \E i \in 1..MaxList : ResolveGuild(i)

Spec == Init /\ [][Next]_vars

\* the snapshot the caller holds, when construction returned one
Snapshot == profile[1]

\* profile2 = Profile(state=state, data=data2, user_id=user_id, guild_id=guild_id)
ConstructAgain(user_id, guild_id) ==
    /\ pc = "constructed"
    /\ stateCalls' = stateCalls \o InitCalls(data2[1], guild_id)
    /\ data2' = Some(PayloadAfterInit(data2[1]))
    /\ profile2' = Returned(data2[1], user_id, guild_id)
    /\ pc' = "constructed twice"
    /\ UNCHANGED <<sent, data, profile, raisedAt, readResult, connVars>>

NextTwice ==
    \/ \E user_id \in UserIds, guild_id \in GuildIds : Construct(user_id, guild_id)
    \/ \E user_id \in UserIds, guild_id \in GuildIds : ConstructAgain(user_id, guild_id)

SpecTwice == Init /\ [][NextTwice]_vars

\* the second snapshot
Snapshot2 == profile2[1]

----------------------------------------------------------------------------
(* == on the objects a snapshot holds *)

\* an object is named by the construction that made it and the slot it is in
ObjectId(n, slot) == <<n, slot>>

\* object.__eq__: a class that defines no __eq__ compares by identity
object__eq__(a, b) == a = b

\* a == b for two overlays, or None; MemberUserProfile defines no __eq__
MemberUserProfile__eq__(a, b, ida, idb) ==
    IF a = None \/ b = None THEN a = b ELSE object__eq__(ida, idb)

\* mixins.Hashable.__eq__, which ApplicationProfile, MutualGuild and
\* ProfileBadge inherit: same class and same id
Hashable__eq__(a, b) == a.id = b.id

\* user.BaseUser.__eq__ and member.Member.__eq__: same id
User__eq__(a, b) == a.id = b.id

Member__eq__(a, b) ==
    IF a = None \/ b = None THEN a = b ELSE a[1]._user.id = b[1]._user.id

\* list.__eq__ on two lists of connections
ConnectionLists__eq__(a, b) ==
    /\ Len(a) = Len(b)
    /\ \A i \in 1..Len(a) : __eq__(a[i], b[i])

\* list.__eq__ on two lists of Hashable objects
HashableLists__eq__(a, b) ==
    /\ Len(a) = Len(b)
    /\ \A i \in 1..Len(a) : Hashable__eq__(a[i], b[i])

ApplicationProfile__eq__(a, b) ==
    IF a = None \/ b = None THEN a = b ELSE Hashable__eq__(a[1], b[1])

\* p.f == q.f for the field f of the first snapshot p and the second q
FieldEq(f, p, q) ==
    CASE f = "user" -> User__eq__(p.user[1], q.user[1])
      [] f \in {"user_profile", "member_profile"} ->
            MemberUserProfile__eq__(p[f][1], q[f][1], ObjectId(1, f), ObjectId(2, f))
      [] f = "member" -> Member__eq__(p.member[1], q.member[1])
      [] f = "connections" -> ConnectionLists__eq__(p[f][1][1], q[f][1][1])
      [] f \in {"badges", "mutual_guilds"} -> HashableLists__eq__(p[f][1][1], q[f][1][1])
      [] f = "application" -> ApplicationProfile__eq__(p[f][1], q[f][1])
      [] OTHER -> p[f] = q[f]

----------------------------------------------------------------------------
(* C1 *)

\* the payload the caller holds, and the payload as it was received
Payload == data[1]

Received == sent[1]

\* construction was attempted
Attempted == pc \in {"constructed", "raised"}

Elements(d, k) == OrEmptyList(Get(d, k))

\* no fragment of the payload lacks a key its constructor subscripts
WellFormed(d) ==
    /\ d.user # Absent
    /\ \A i \in 1..Len(Elements(d, "connected_accounts")) :
          ~Raises_update(Elements(d, "connected_accounts")[i])
    /\ \A i \in 1..Len(Elements(d, "badges")) :
          ~RaisesProfileBadge(Elements(d, "badges")[i])
    /\ \A i \in 1..Len(Elements(d, "mutual_guilds")) :
          ~RaisesMutualGuild(Elements(d, "mutual_guilds")[i])
    /\ Get(d, "application") # None => Get(d, "application")[1].id # Absent

\* the snapshot field each optional key fills, and its not-present value
FieldOf ==
    [user_profile |-> "user_profile", guild_member |-> "member",
     guild_member_profile |-> "member_profile", premium_since |-> "premium_since",
     premium_type |-> "premium_type", premium_guild_since |-> "premium_guild_since",
     connected_accounts |-> "connections", badges |-> "badges",
     guild_badges |-> "guild_badges", mutual_guilds |-> "mutual_guilds",
     application |-> "application", legacy_username |-> "legacy_username"]

SequenceKeys == {"connected_accounts", "badges", "guild_badges", "mutual_guilds"}

NotPresent(k) == IF k \in SequenceKeys THEN Key(Some(<<>>)) ELSE Key(None)

\* C1: for a payload with a valid user fragment and any subset of the twelve
\* optional keys, construction does not raise, and the field of every absent
\* key holds None (a single value) or the empty list (a sequence).
C1_AnySubsetConstructs ==
    (Attempted /\ WellFormed(Received)) =>
        /\ pc = "constructed"
        /\ \A k \in OptionalKeys :
              Received[k] = Absent => Snapshot[FieldOf[k]] = NotPresent(k)

----------------------------------------------------------------------------
(* C2 *)

\* the per-service table of the specification: which field each template takes
NameTemplates ==
    [twitch |-> "https://www.twitch.tv/", reddit |-> "https://www.reddit.com/u/",
     twitter |-> "https://twitter.com/", github |-> "https://github.com/",
     tiktok |-> "https://tiktok.com/@", ebay |-> "https://www.ebay.com/usr/",
     instagram |-> "https://www.instagram.com/", playstation |-> "https://psnprofiles.com/",
     domain |-> "https://"]

IdTemplates ==
    [youtube |-> <<"https://www.youtube.com/channel/", "">>,
     steam |-> <<"https://steamcommunity.com/profiles/", "">>,
     spotify |-> <<"https://open.spotify.com/user/", "">>,
     roblox |-> <<"https://www.roblox.com/users/", "/profile">>]

TableUrl(c) ==
    LET t == c.type.value
    IN  IF t \in DOMAIN NameTemplates THEN Some(NameTemplates[t] \o c.name)
        ELSE IF t \in DOMAIN IdTemplates THEN Some(IdTemplates[t][1] \o c.id \o IdTemplates[t][2])
        ELSE IF t = "xbox" THEN
            IF Contains(c.name, " ") THEN Some(c.name)
            ELSE Some("https://account.xbox.com/en-US/Profile?Gamertag=" \o c.name)
        ELSE None

\* C2: the url of every connection record equals the entry of the fixed
\* per-service table for its (type, id, name); it is a string for the 14
\* service types of the table and None for every other type.
C2_UrlTable ==
    \A c \in Live :
        /\ url(c) = TableUrl(c)
        /\ (url(c) # None) <=> (c.type.value \in UrlTypes)

\* a record of each of the 14 services, an xbox record with a space in its
\* name, one without, and a record of an unknown type are alive
C2_Witness ==
    /\ heap["a"] # None /\ heap["a"][1].type.value = "xbox" /\ heap["a"][1].name = "John Doe"
    /\ url(heap["a"][1]) = Some("John Doe")
    /\ heap["b"] # None /\ heap["b"][1].type.value = "mastodon"
    /\ url(heap["b"][1]) = None

----------------------------------------------------------------------------
(* C3 *)

\* the markup link [label](target)
Link(label, target) == "[" \o label \o "](" \o target \o ")"

\* C3: hyperlink is the link [label](url), with label the name or U+200B for
\* an empty name, exactly when url is present and starts with "https";
\* otherwise it is the plain name.  Two records with the same name and url
\* have the same hyperlink.
C3_Hyperlink ==
    /\ \A c \in Live :
          IF url(c) # None /\ StartsWith(url(c)[1], "https")
          THEN hyperlink(c) = Link(IF c.name = "" THEN ZWSP ELSE c.name, url(c)[1])
          ELSE hyperlink(c) = c.name
    /\ \A c1, c2 \in Live :
          (c1.name = c2.name /\ url(c1) = url(c2)) => hyperlink(c1) = hyperlink(c2)

\* an xbox record whose name has a space (its url is the name, not https) is
\* shown as its plain name, next to a github record with an empty name that
\* is shown as a link labelled U+200B
C3_Witness ==
    /\ heap["a"] # None /\ heap["b"] # None
    /\ heap["a"][1].type.value = "xbox" /\ heap["a"][1].name = "John Doe"
    /\ hyperlink(heap["a"][1]) = "John Doe"
    /\ heap["b"][1].type.value = "github" /\ heap["b"][1].name = ""
    /\ hyperlink(heap["b"][1]) = Link(ZWSP, "https://github.com/")

----------------------------------------------------------------------------
(* C4 *)

Applications == IF pc = "constructed" /\ Snapshot.application[1] # None
                THEN {Snapshot.application[1][1]} ELSE {}

\* C4: install_url is custom_install_url whenever that is present, else the
\* URL of install_params when those are present, else None.
C4_InstallUrl ==
    \A a \in Applications :
        install_url(a) =
            IF a.custom_install_url # None THEN a.custom_install_url
            ELSE IF a.install_params # None
                 THEN Some(InstallParamsUrl(a.install_params[1]))
                 ELSE None

----------------------------------------------------------------------------
(* C5 *)

\* C5: with guild_member in the payload, the member fragment's user is the
\* base user fragment when Member is built, and the member's user equals the
\* snapshot's user; without guild_member, member is None.
C5_MemberIdentity ==
    pc = "constructed" =>
        IF Received.guild_member # Absent
        THEN /\ Payload.guild_member[1][1].user = Key(Some(Received.user[1]))
             /\ Snapshot.member[1] # None
             /\ Snapshot.member[1][1]._user = Snapshot.user[1]
             /\ Snapshot.member[1][1]._user = User(Received.user[1])
        ELSE Snapshot.member[1] = None

\* a snapshot built from a payload whose member fragment embedded another
\* user: its member has the base user's identity
C5_Witness ==
    /\ pc = "constructed"
    /\ Received.guild_member = Key(Some(MemberStaleUser))
    /\ Snapshot.member[1] # None
    /\ Snapshot.member[1][1]._user = User(UserA)
    /\ Snapshot.user[1] = User(UserA)

----------------------------------------------------------------------------
(* C6 *)

\* the field is a list as long as the source array
SameLength(field, source) == field # None /\ Len(field[1]) = Len(source)

\* C6: connections, badges and mutual_guilds have the length and the order
\* of connected_accounts, badges and mutual_guilds; an empty, null or absent
\* array gives an empty list, never None.
C6_ListsInOrder ==
    pc = "constructed" =>
        /\ LET src == Elements(Received, "connected_accounts")
               field == Snapshot.connections[1]
           IN  /\ SameLength(field, src)
               /\ \A i \in 1..Len(src) : field[1][i] = PartialConnection(src[i])
        /\ LET src == Elements(Received, "badges")
               field == Snapshot.badges[1]
           IN  /\ SameLength(field, src)
               /\ \A i \in 1..Len(src) : field[1][i] = ProfileBadge(src[i])
        /\ LET src == Elements(Received, "mutual_guilds")
               field == Snapshot.mutual_guilds[1]
           IN  /\ SameLength(field, src)
               /\ \A i \in 1..Len(src) : field[1][i] = MutualGuild(src[i])
        /\ \A k \in {"connected_accounts", "badges", "mutual_guilds"} :
              Elements(Received, k) = <<>> => Snapshot[FieldOf[k]] = Key(Some(<<>>))

\* a snapshot of two connections in the order xbox, github, built from a
\* payload that lists them in that order
C6_Witness ==
    /\ pc = "constructed"
    /\ Received.connected_accounts = Key(Some(<<ConnXbox, ConnSample>>))
    /\ Snapshot.connections =
          Key(Some(<<PartialConnection(ConnXbox), PartialConnection(ConnSample)>>))

----------------------------------------------------------------------------
(* C7 *)

\* C7: every snapshot has a guild_badges list built from the payload's
\* guild_badges in order, and reading it never fails.
C7_GuildBadges ==
    /\ pc = "constructed" =>
          /\ Snapshot.guild_badges # Unassigned
          /\ LET src == Elements(Received, "guild_badges")
                 field == Snapshot.guild_badges[1]
             IN  /\ SameLength(field, src)
                 /\ \A i \in 1..Len(src) : field[1][i] = ProfileBadge(src[i])
    /\ readResult # "AttributeError"

----------------------------------------------------------------------------
(* C8 *)

Lacks(d, k, required) ==
    \E i \in 1..Len(Elements(d, k)) : \E r \in required : Elements(d, k)[i][r] = Absent

\* a required field is missing: the user fragment, id/name/type/verified of
\* a connection, id/icon of a badge, id of a mutual guild
MissingOutsideApplication(d) ==
    \/ d.user = Absent
    \/ Lacks(d, "connected_accounts", ConnRequired)
    \/ Lacks(d, "badges", BadgeRequired)
    \/ Lacks(d, "mutual_guilds", {"id"})

\* C8 as stated: when any required field is missing, the id of the
\* application included, construction raises and returns no snapshot.
C8_MissingRequiredAborts ==
    (Attempted /\ (\/ MissingOutsideApplication(Received)
                   \/ /\ Get(Received, "application") # None
                      /\ Get(Received, "application")[1].id = Absent)) =>
        pc = "raised" /\ raisedAt # 0 /\ profile = None

\* C8, amended: the same, for the id of an application fragment that is not
\* the empty object (an empty application object is taken as no application).
C8_MissingRequiredAbortsNonEmpty ==
    (Attempted /\ (\/ MissingOutsideApplication(Received)
                   \/ /\ TruthyDict(Get(Received, "application"))
                      /\ Get(Received, "application")[1].id = Absent)) =>
        pc = "raised" /\ raisedAt # 0 /\ profile = None

\* construction of a payload whose only flaw is a badge without an icon
\* raised at the badges statement and returned nothing
C8_Witness ==
    /\ pc = "raised"
    /\ raisedAt = 361
    /\ \E i \in 1..Len(Elements(Received, "badges")) :
          Elements(Received, "badges")[i].icon = Absent
    /\ profile = None

----------------------------------------------------------------------------
(* C9 *)

\* C9 as stated: no call is made on state between the start and the end of
\* construction.
C9_NoCallDuringConstruction ==
    [][pc = "fetched" => stateCalls' = stateCalls]_vars

\* C9, amended: __init__ calls state exactly when the payload has a user and
\* a guild_member, and then makes the one call
\* _get_or_create_unavailable_guild(guild_id); after construction the only
\* calls are the guild lookups of MutualGuild.guild.
C9_CallOnlyForMember ==
    [][/\ pc = "fetched" =>
            IF Received.user # Absent /\ Received.guild_member # Absent
            THEN \E g \in GuildIds : stateCalls' = Append(stateCalls, GuildCall(g))
            ELSE stateCalls' = stateCalls
       /\ (pc # "fetched" /\ stateCalls' # stateCalls) =>
            \E i \in 1..Len(Snapshot.mutual_guilds[1][1]) :
                stateCalls' = Append(stateCalls, GuildCall(Snapshot.mutual_guilds[1][1][i].id))
      ]_vars

\* a snapshot with a member, after the one call its construction made, and a
\* later guild lookup
C9_Witness ==
    /\ pc = "constructed"
    /\ Snapshot.member[1] # None
    /\ Len(stateCalls) = 2
    /\ stateCalls[1] \in {GuildCall(g) : g \in GuildIds}
    /\ stateCalls[2] = GuildCall(20)

----------------------------------------------------------------------------
(* C10 *)

\* C10: two records are == exactly when their id and name are equal, whatever
\* their type, verified, visible and metadata are; != is the negation of ==;
\* records with the same type value and id have the same hash.
C10_EqHash ==
    \A c1, c2 \in Live :
        /\ __eq__(c1, c2) <=> (c1.id = c2.id /\ c1.name = c2.name)
        /\ __ne__(c1, c2) <=> ~__eq__(c1, c2)
        /\ (c1.type.value = c2.type.value /\ c1.id = c2.id)
              => __hash__(c1) = __hash__(c2)

\* two records with the same id and name, of different types, one verified
\* and one not, with different metadata, compare equal; they hash differently
C10_Witness ==
    /\ heap["a"] # None /\ heap["b"] # None
    /\ heap["a"][1].id = heap["b"][1].id
    /\ heap["a"][1].name = heap["b"][1].name
    /\ heap["a"][1].type # heap["b"][1].type
    /\ heap["a"][1].verified # heap["b"][1].verified
    /\ heap["a"][1].metadata # heap["b"][1].metadata
    /\ __eq__(heap["a"][1], heap["b"][1])
    /\ ~__ne__(heap["a"][1], heap["b"][1])

----------------------------------------------------------------------------
(* C11 *)

\* the fragments whose type is not a member of ConnectionType
UnknownTypeFragments == {d \in ConnFragments : d.type[1] \notin UrlTypes}

\* C11: constructing a record from a fragment whose type is not a known
\* service type never fails (at every free address the call is possible and
\* ends without an error, leaving a record there); the type of every such
\* record is a fallback value that carries the raw string unchanged, its url
\* is None, and visible is True, as it is for every record.
C11_UnknownTypeFallback ==
    /\ \A x \in Addrs, d \in UnknownTypeFragments :
          heap[x] = None =>
             ENABLED (/\ NewConnection(x, d)
                      /\ connError' = "none"
                      /\ heap'[x] # None)
    /\ \A c \in Live :
          /\ c.visible = TRUE
          /\ c.type.value \notin UrlTypes =>
                /\ c.type.value = "mastodon"
                /\ c.type \notin {ConnectionType(t) : t \in UrlTypes}
                /\ url(c) = None

\* a record of the unknown type, unverified, next to a free address
C11_Witness ==
    /\ heap["a"] # None
    /\ heap["a"][1].type.value = "mastodon"
    /\ heap["a"][1].verified = FALSE
    /\ heap["b"] = None
    /\ connError = "none"

----------------------------------------------------------------------------
(* C12 *)

\* C12: when the payload has a valid user fragment and the premium keys and
\* omits user_profile, application and mutual_guilds, construction succeeds,
\* user_profile and application are None, and mutual_guilds is the empty
\* list (a list, not None).
C12_OmittedKeys ==
    (/\ Attempted
     /\ WellFormed(Received)
     /\ Received.premium_since # Absent
     /\ Received.premium_guild_since # Absent
     /\ Received.user_profile = Absent
     /\ Received.application = Absent
     /\ Received.mutual_guilds = Absent)
    => /\ pc = "constructed"
       /\ profile # None
       /\ Snapshot.user_profile = Key(None)
       /\ Snapshot.application = Key(None)
       /\ Snapshot.mutual_guilds = Key(Some(<<>>))

\* a snapshot built from a payload that has the three premium keys and not
\* the three omitted ones, while other optional keys are there
C12_Witness ==
    /\ pc = "constructed"
    /\ Received.premium_type # Absent
    /\ Received.premium_since # Absent
    /\ Received.premium_guild_since # Absent
    /\ Received.user_profile = Absent
    /\ Received.application = Absent
    /\ Received.mutual_guilds = Absent
    /\ Received.badges # Absent
    /\ Snapshot.mutual_guilds = Key(Some(<<>>))

----------------------------------------------------------------------------
(* C13 *)

\* the fields __init__ assigns (guild_badges is the subject of C7)
AssignedFields ==
    {"user", "user_profile", "member", "member_profile", "premium_type",
     "premium_since", "premium_guild_since", "connections", "badges",
     "mutual_guilds", "application", "legacy_username"}

\* C13: two snapshots constructed from identical payloads in the same
\* session context compare equal under == field by field, the user_profile
\* and member_profile overlays, connections, badges, mutual_guilds and
\* application included.
C13_TwiceEqual ==
    (profile # None /\ profile2 # None) =>
        \A f \in AssignedFields : FieldEq(f, Snapshot, Snapshot2)

----------------------------------------------------------------------------
(* C14 *)

\* the payload keys of the two overlays and the snapshot fields they fill
OverlayKeys == [user_profile |-> "user_profile", member_profile |-> "guild_member_profile"]

\* C14: for each overlay of a snapshot, banner is None when no banner hash
\* is stored; otherwise it is the guild banner asset of the overlay's own
\* guild_id, user_id and hash when the overlay has a guild_id, and the user
\* banner asset of user_id and hash when it has none. The guild_id is the one
\* of the overlay's fragment, whatever guild the profile was fetched for.
C14_Banner ==
    pc = "constructed" =>
        \A f \in DOMAIN OverlayKeys :
            Snapshot[f][1] # None =>
                LET o == Snapshot[f][1][1]
                    frag == Received[OverlayKeys[f]][1][1]
                IN  /\ o.guild_id = _get_as_snowflake(frag, "guild_id")
                    /\ o._banner = Get(frag, "banner")
                    /\ o.user_id \in UserIds
                    /\ o._banner = None => banner(o) = None
                    /\ (o._banner # None /\ o.guild_id # None) =>
                          banner(o) = Some(_from_guild_banner(o.guild_id[1], o.user_id,
                                                              o._banner[1]))
                    /\ (o._banner # None /\ o.guild_id = None) =>
                          banner(o) = Some(_from_user_banner(o.user_id, o._banner[1]))

\* a snapshot fetched for guild 10 whose member overlay names guild 20 and
\* has a banner hash, and whose user overlay has a hash and no guild
C14_Witness ==
    /\ pc = "constructed"
    /\ Snapshot.member_profile[1] # None
    /\ Snapshot.member_profile[1][1].guild_id = Some(20)
    /\ banner(Snapshot.member_profile[1][1]) =
          Some(_from_guild_banner(20, 1, "b3"))
    /\ Snapshot.user_profile[1] # None
    /\ banner(Snapshot.user_profile[1][1]) = Some(_from_user_banner(1, "b1"))

----------------------------------------------------------------------------
(* C15 *)

\* C15 as stated: a record is immutable once constructed; no step changes
\* id, name, type, verified, visible or metadata of a record that exists.
C15_Immutable ==
    [][\A x \in Addrs : heap[x] # None => heap'[x] = heap[x]]_vars

\* C15, amended: _update refreshes the record in place. After a refresh with
\* a complete payload the record at the same address has the payload's id,
\* name, type, verified and metadata and visible True; a refresh makes no new
\* record and changes no other record.
C15_RefreshInPlace ==
    /\ [](lastUpdate # None =>
            LET x == lastUpdate[1].self
                d == lastUpdate[1].data
            IN  /\ heap[x] # None
                /\ heap[x][1].visible = TRUE
                /\ ~Raises_update(d) =>
                      /\ heap[x][1].id = d.id[1]
                      /\ heap[x][1].name = d.name[1]
                      /\ heap[x][1].type.value = d.type[1]
                      /\ heap[x][1].verified = d.verified[1]
                      /\ heap[x][1].metadata = GetOr(d, "metadata", {}))
    /\ [][lastUpdate' # lastUpdate =>
            /\ LiveAddrs' = LiveAddrs
            /\ \A y \in Addrs \ {lastUpdate'[1].self} : heap'[y] = heap[y]]_vars

\* the record at address a was constructed as a verified github account 1
\* and, after a refresh, is an unverified account 2 of the unknown type at
\* the same address, while b holds another record
C15_Witness ==
    /\ lastUpdate # None
    /\ lastUpdate[1].self = "a"
    /\ connError = "none"
    /\ heap["a"] # None /\ heap["b"] # None
    /\ heap["a"][1].id = "2"
    /\ heap["a"][1].type.value = "mastodon"
    /\ heap["a"][1].verified = FALSE
    /\ heap["b"][1].id = "1"

----------------------------------------------------------------------------
(* C16 *)

\* C16: hash is consistent with equality: any two records that are == have
\* the same hash, also when they have the same id and name and different
\* service types.
C16_HashConsistent ==
    \A c1, c2 \in Live : __eq__(c1, c2) => __hash__(c1) = __hash__(c2)

----------------------------------------------------------------------------
(* C17 *)

\* C17: construction leaves its input payload unchanged: after the call,
\* whether it returned or raised, every key and nested value of the caller's
\* payload dict is what it was before, also when guild_member is present.
C17_PayloadUnchanged == Attempted => Payload = Received

----------------------------------------------------------------------------
(* C18 *)

\* C18: premium_type of a snapshot is None exactly when the payload's
\* premium_type is absent or null; for every number that is present, 0
\* included, it is the enum member (or the raw fallback) of that number.
C18_PremiumType ==
    pc = "constructed" =>
        /\ Snapshot.premium_type = Key(None) <=> Get(Received, "premium_type") = None
        /\ Get(Received, "premium_type") # None =>
              Snapshot.premium_type =
                  Key(Some(try_enum_PremiumType(Get(Received, "premium_type")[1])))

====
